---- MODULE Spec2Model ----
(***************************************************************************)
(* grafana-slack-alerter: the webhook handler of src/main.go, the          *)
(* formatting function buildMessages it calls, and extractValue and        *)
(* humanize, which format the value of an alert.                           *)
(*                                                                         *)
(* Representation.  Label names and values are sequences of bytes (they    *)
(* are hashed byte by byte); annotation values, statuses and URLs are      *)
(* strings.  A Go string built by concatenation is the sequence of its     *)
(* pieces.  A Go map of labels is a reference: the decoded batch holds,    *)
(* for each alert, an address into the heap `labels`, so that a write      *)
(* through one copy of an Alert is seen through every other copy.          *)
(* Ranging over a Go map visits the keys in an unspecified order: every    *)
(* `range` over a map is a choice among Orders.                            *)
(***************************************************************************)
EXTENDS Integers, Sequences, FiniteSets, TLC

VARIABLES
  body,                         \* r.Body: the request body
  query,                        \* r.URL.Query().Get("channel")
  grafanaAlertSource,           \* flag -grafanaAlertSource
  disableGrafanaSilenceButton,  \* flag -grafanaSilenceButton
  grafanaMsg,                   \* the decoded batch
  labels,                       \* heap of the label maps of grafanaMsg.Alerts
  slackMsgs,                    \* the result of buildMessages
  rendered,                     \* the function that built slackMsgs, "" before
  pc,                           \* position of handleWebhookRequest
  posted,                       \* the calls of slack.PostWebhookContext so far
  lastError,                    \* 0 is nil, i the error of the i-th call
  response,                     \* status code written to w, 0 before
  valueInput,                   \* the argument of extractValue and humanize
  extracted,                    \* the result of extractValue
  humanized                     \* the result of humanize

valueVars == <<valueInput, extracted, humanized>>

vars == <<body, query, grafanaAlertSource, disableGrafanaSilenceButton,
          grafanaMsg, labels, slackMsgs, rendered, pc, posted, lastError,
          response, valueInput, extracted, humanized>>

(***************************************************************************)
(* Bounds of the inputs.                                                   *)
(***************************************************************************)
MaxAlerts == 15         \* longest batch of the chunking inputs
MaxLabels == 11         \* most labels on one alert
MaxGatewayAlerts == 9   \* longest batch posted through the handler

StatusOK == 200
StatusInternalServerError == 500

username == "Grafana"
grafanaUrl == IF grafanaAlertSource THEN "" ELSE "http://grafana"

\* "label_app_kubernetes_io_team"
TeamLabel ==
  <<108, 97, 98, 101, 108, 95, 97, 112, 112, 95, 107, 117, 98, 101, 114,
    110, 101, 116, 101, 115, 95, 105, 111, 95, 116, 101, 97, 109>>

(***************************************************************************)
(* Strings and maps.                                                       *)
(***************************************************************************)
\* m[k] of a Go map of strings: the zero value when k is absent
Get(m, k) == IF k \in DOMAIN m THEN m[k] ELSE ""

\* a < b for Go strings: bytewise lexicographic
RECURSIVE Less(_, _)
Less(a, b) ==
  IF a = <<>> THEN b # <<>>
  ELSE IF b = <<>> THEN FALSE
  ELSE IF Head(a) # Head(b) THEN Head(a) < Head(b)
  ELSE Less(Tail(a), Tail(b))

RECURSIVE Insert(_, _)
Insert(sorted, x) ==
  IF sorted = <<>> THEN <<x>>
  ELSE IF Less(x, Head(sorted)) THEN <<x>> \o sorted
  ELSE <<Head(sorted)>> \o Insert(Tail(sorted), x)

\* sort.Strings
RECURSIVE SortStrings(_)
SortStrings(names) ==
  IF names = <<>> THEN <<>>
  ELSE Insert(SortStrings(Tail(names)), Head(names))

RECURSIVE Ascending(_)
Ascending(S) ==
  IF S = {} THEN <<>>
  ELSE LET m == CHOOSE x \in S : \A y \in S \ {x} : Less(x, y)
       IN <<m>> \o Ascending(S \ {m})

Reverse(s) == [i \in 1..Len(s) |-> s[Len(s) + 1 - i]]

Rotate(s, k) == [i \in 1..Len(s) |-> s[((i + k - 1) % Len(s)) + 1]]

\* The orders in which one `range` over the map m may visit its keys: the
\* ascending and the descending order of the keys, each also rotated by one
\* key either way, which is every permutation of up to three keys.
Orders(m) ==
  LET asc == Ascending(DOMAIN m)
      n == Len(asc)
  IN IF n = 0 THEN {<<>>}
     ELSE {Rotate(s, k) : s \in {asc, Reverse(asc)}, k \in {0, 1, n - 1}}

Perms(S) ==
  {p \in [1..Cardinality(S) -> S] :
     \A i, j \in 1..Cardinality(S) : i # j => p[i] # p[j]}

RECURSIVE Flatten(_)
Flatten(ss) == IF ss = <<>> THEN <<>> ELSE Head(ss) \o Flatten(Tail(ss))

(***************************************************************************)
(* hash: FNV-1a, 32 bits, over the concatenation of name and value in the  *)
(* order the range visits them.  A 32-bit word is <<high, low>>, two       *)
(* 16-bit halves.                                                          *)
(***************************************************************************)
\* bit i of x
Bit(x, i) == (x \div (2 ^ i)) % 2

\* a xor b, of two bytes
Xor8(a, b) ==
  ((Bit(a, 0) + Bit(b, 0)) % 2) + 2 * ((Bit(a, 1) + Bit(b, 1)) % 2)
  + 4 * ((Bit(a, 2) + Bit(b, 2)) % 2) + 8 * ((Bit(a, 3) + Bit(b, 3)) % 2)
  + 16 * ((Bit(a, 4) + Bit(b, 4)) % 2) + 32 * ((Bit(a, 5) + Bit(b, 5)) % 2)
  + 64 * ((Bit(a, 6) + Bit(b, 6)) % 2) + 128 * ((Bit(a, 7) + Bit(b, 7)) % 2)

\* one byte of fnv.New32a's Write: xor, then multiply by 16777619 = 2^24 + 403
fnvWrite(h, b) ==
  LET lo == (h[2] \div 256) * 256 + Xor8(h[2] % 256, b)
      p == lo * 403
  IN <<(h[1] * 403 + (p \div 65536) + (lo % 256) * 256) % 65536, p % 65536>>

\* the bytes lo..hi written in order, the range halved at each step (the
\* test of h makes TLC compute the sum so far before it goes deeper)
RECURSIVE fnvFold(_, _, _, _)
fnvFold(h, bytes, lo, hi) ==
  IF h = <<>> \/ lo > hi THEN h
  ELSE IF lo = hi THEN fnvWrite(h, bytes[lo])
  ELSE fnvFold(fnvFold(h, bytes, lo, (lo + hi) \div 2), bytes,
               ((lo + hi) \div 2) + 1, hi)

\* Sum32 after writing bytes, from the offset basis 2166136261
fnvSum32(h, bytes) == fnvFold(h, bytes, 1, Len(bytes))

\* strconv.FormatUint(_, 10): the decimal digits
RECURSIVE FormatUint(_)
FormatUint(h) ==
  LET mid == (h[1] % 10) * 65536 + h[2]
      q == <<h[1] \div 10, mid \div 10>>
  IN IF q = <<0, 0>> THEN <<mid % 10>> ELSE Append(FormatUint(q), mid % 10)

hashText(items, order) ==
  Flatten([i \in 1..Len(order) |-> order[i] \o items[order[i]]])

hashIn(items, order) ==
  FormatUint(fnvSum32(<<33052, 40389>>, hashText(items, order)))

\* the values hash(items) may return
hash(items) == {hashIn(items, o) : o \in Orders(items)}

(***************************************************************************)
(* extractValue and humanize.  A value string is a sequence of bytes.  A   *)
(* float64 is held in decimal: a number is digits * 10^exp, the sign       *)
(* apart, so dividing or multiplying by 1000 moves exp by 3 and the        *)
(* comparisons with 1 and 1000 count decimal digits.  The binary rounding  *)
(* of float64 is not represented: the numbers of the inputs have at most   *)
(* nine significant digits and none is formatted at a rounding tie.        *)
(***************************************************************************)
\* "value="
ValueSep == <<118, 97, 108, 117, 101, 61>>

\* " "
SpaceSep == <<32>>

\* strings.Index(s, sep) + 1 searched from position from; 0 when absent
RECURSIVE IndexFrom(_, _, _)
IndexFrom(s, sep, from) ==
  IF from + Len(sep) - 1 > Len(s) THEN 0
  ELSE IF SubSeq(s, from, from + Len(sep) - 1) = sep THEN from
  ELSE IndexFrom(s, sep, from + 1)

\* strings.Split(s, sep) for a separator that is not empty, given the
\* position p of the first separator
RECURSIVE Split(_, _)
splitAt(s, sep, p) ==
  IF p = 0 THEN <<s>>
  ELSE <<SubSeq(s, 1, p - 1)>> \o Split(SubSeq(s, p + Len(sep), Len(s)), sep)

Split(s, sep) == splitAt(s, sep, IndexFrom(s, sep, 1))

IsDigit(b) == b \in 48..57

AllDigits(ds) == \A i \in 1..Len(ds) : IsDigit(ds[i])

ToLower(s) ==
  [i \in 1..Len(s) |-> IF s[i] \in 65..90 THEN s[i] + 32 ELSE s[i]]

\* the number a sequence of decimal digits writes
RECURSIVE Atoi(_)
Atoi(ds) ==
  IF ds = <<>> THEN 0
  ELSE Atoi(SubSeq(ds, 1, Len(ds) - 1)) * 10 + (ds[Len(ds)] - 48)

\* the number of decimal digits of d, 0 for 0
RECURSIVE NumDigits(_)
NumDigits(d) == IF d = 0 THEN 0 ELSE 1 + NumDigits(d \div 10)

RECURSIVE Pow10(_)
Pow10(k) == IF k = 0 THEN 1 ELSE 10 * Pow10(k - 1)

\* float64 values
NaN == [kind |-> "nan", neg |-> FALSE, digits |-> 0, exp |-> 0]
Inf(neg) == [kind |-> "inf", neg |-> neg, digits |-> 0, exp |-> 0]
Number(neg, digits, exp) ==
  [kind |-> "num", neg |-> neg, digits |-> digits, exp |-> exp]

\* v == 0
IsZero(v) == v.kind = "num" /\ v.digits = 0

\* the decimal magnitude of a number that is not zero:
\* 10^(Magnitude - 1) <= |v| < 10^Magnitude
Magnitude(v) == NumDigits(v.digits) + v.exp

Signed(s) == s # <<>> /\ s[1] \in {43, 45}

Negative(s) == s # <<>> /\ s[1] = 45

\* the first position of s holding a byte of set, 0 when there is none
FirstOf(s, set) ==
  IF \E i \in 1..Len(s) : s[i] \in set
  THEN CHOOSE i \in 1..Len(s) :
         s[i] \in set /\ \A j \in 1..(i - 1) : s[j] \notin set
  ELSE 0

\* s without its sign
Unsigned(s) == IF Signed(s) THEN Tail(s) ELSE s

\* strconv.special: "inf" and "infinity" with an optional sign, "nan"
\* without, in any case of the letters
special(s) ==
  IF ToLower(Unsigned(s)) \in {<<105, 110, 102>>,
                               <<105, 110, 102, 105, 110, 105, 116, 121>>}
  THEN [ok |-> TRUE, f |-> Inf(Negative(s))]
  ELSE IF ToLower(s) = <<110, 97, 110>>
       THEN [ok |-> TRUE, f |-> NaN]
       ELSE [ok |-> FALSE, f |-> NaN]

\* s before and after its position p; all of s and nothing when p = 0
Before(s, p) == IF p = 0 THEN s ELSE SubSeq(s, 1, p - 1)
After(s, p) == IF p = 0 THEN <<>> ELSE SubSeq(s, p + 1, Len(s))

\* the number of the digits whole and frac around the point and of the
\* exponent, if the text has one
readNumber(neg, whole, frac, hasExp, exponent) ==
  IF /\ AllDigits(whole) /\ AllDigits(frac)
     /\ Len(whole) + Len(frac) >= 1
     /\ hasExp => (Unsigned(exponent) # <<>> /\ AllDigits(Unsigned(exponent)))
  THEN [ok |-> TRUE,
        f |-> Number(neg, Atoi(whole \o frac),
                     (IF Negative(exponent) THEN 0 - Atoi(Unsigned(exponent))
                      ELSE Atoi(Unsigned(exponent))) - Len(frac))]
  ELSE [ok |-> FALSE, f |-> NaN]

readMantissa(neg, mantissa, dot, hasExp, exponent) ==
  readNumber(neg, Before(mantissa, dot), After(mantissa, dot), hasExp,
             exponent)

readUnsigned(neg, unsigned, e) ==
  readMantissa(neg, Before(unsigned, e),
               FirstOf(Before(unsigned, e), {46}), e # 0, After(unsigned, e))

\* strconv.readFloat on a decimal text: sign, digits with at most one
\* point, exponent.  Hexadecimal floats are not among the inputs.
readFloat(s) ==
  readUnsigned(Negative(s), Unsigned(s), FirstOf(Unsigned(s), {101, 69}))

\* the result of ParseFloat from those of special and readFloat
parseResult(sp, rf) ==
  IF sp.ok THEN [err |-> FALSE, v |-> sp.f]
  ELSE IF ~rf.ok THEN [err |-> TRUE, v |-> Number(FALSE, 0, 0)]
  ELSE IF IsZero(rf.f) THEN [err |-> FALSE, v |-> Number(rf.f.neg, 0, 0)]
  ELSE IF Magnitude(rf.f) > 309 THEN [err |-> TRUE, v |-> Inf(rf.f.neg)]
  ELSE IF Magnitude(rf.f) < -323
       THEN [err |-> FALSE, v |-> Number(rf.f.neg, 0, 0)]
       ELSE [err |-> FALSE, v |-> rf.f]

\* strconv.ParseFloat(s, 64): a syntax error, a range error for a number
\* beyond the largest float64, zero for one below the smallest
ParseFloat(s) == parseResult(special(s), readFloat(s))

\* the decimal digits of d, none for 0
RECURSIVE Itoa(_)
Itoa(d) == IF d = 0 THEN <<>> ELSE Append(Itoa(d \div 10), 48 + (d % 10))

Zeros(k) == [i \in 1..k |-> 48]

\* v without the trailing zeros of its digits
RECURSIVE Trim(_)
Trim(v) ==
  IF v.digits # 0 /\ v.digits % 10 = 0
  THEN Trim([v EXCEPT !.digits = @ \div 10, !.exp = @ + 1])
  ELSE v

\* v without its last k digits, rounded to even at a tie
roundAt(v, k, q, r, half) ==
  IF k <= 0 THEN v
  ELSE [v EXCEPT !.digits = IF r > half \/ (r = half /\ q % 2 = 1)
                            THEN q + 1 ELSE q,
                 !.exp = @ + k]

dropDigits(v, k) ==
  IF k <= 0 THEN v
  ELSE roundAt(v, k, v.digits \div Pow10(k), v.digits % Pow10(k),
               5 * Pow10(k - 1))

\* v rounded to 4 significant digits
Round4(v) == dropDigits(v, NumDigits(v.digits) - 4)

\* the exponent a of %e, two digits at least
exponentDigits(a) ==
  IF a < 10 THEN <<48>> \o (IF a = 0 THEN <<48>> ELSE Itoa(a)) ELSE Itoa(a)

\* %e of the digits ds with exponent x: d.ddde+xx
FormatE(ds, x) ==
  <<ds[1]>> \o (IF Len(ds) > 1 THEN <<46>> \o Tail(ds) ELSE <<>>)
    \o <<101, IF x < 0 THEN 45 ELSE 43>>
    \o exponentDigits(IF x < 0 THEN 0 - x ELSE x)

\* %f of the digits ds with decimal exponent e, no trailing zeros
FormatF(ds, e) ==
  IF e >= 0 THEN ds \o Zeros(e)
  ELSE IF Len(ds) > 0 - e
       THEN SubSeq(ds, 1, Len(ds) + e) \o <<46>>
              \o SubSeq(ds, Len(ds) + e + 1, Len(ds))
       ELSE <<48, 46>> \o Zeros((0 - e) - Len(ds)) \o ds

\* %g of the number t of at most 4 digits, x its exponent in %e
formatRounded(sign, t, x) ==
  IF x < -4 \/ x >= 4 THEN sign \o FormatE(Itoa(t.digits), x)
  ELSE sign \o FormatF(Itoa(t.digits), t.exp)

formatNumber(sign, t) == formatRounded(sign, t, Magnitude(t) - 1)

\* fmt.Sprintf("%.4g", v)
Format4g(v) ==
  IF v.kind = "nan" THEN <<78, 97, 78>>
  ELSE IF v.kind = "inf"
       THEN <<IF v.neg THEN 45 ELSE 43, 73, 110, 102>>
  ELSE IF IsZero(v) THEN (IF v.neg THEN <<45, 48>> ELSE <<48>>)
  ELSE formatNumber(IF v.neg THEN <<45>> ELSE <<>>, Trim(Round4(v)))

\* "k", "M", "G", "T", "P", "E", "Z", "Y"
bigPrefixes ==
  <<<<107>>, <<77>>, <<71>>, <<84>>, <<80>>, <<69>>, <<90>>, <<89>>>>

\* "m", "u", "n", "p", "f", "a", "z", "y"
smallPrefixes ==
  <<<<109>>, <<117>>, <<110>>, <<112>>, <<102>>, <<97>>, <<122>>, <<121>>>>

\* divideLoop with the loop left when |v| <= 1000
RECURSIVE divideLoopInclusive(_, _, _)
divideLoopInclusive(v, j, prefix) ==
  IF \/ j > Len(bigPrefixes)
     \/ Magnitude(v) < 4
     \/ (Magnitude(v) = 4 /\ Trim(v).digits = 1)
  THEN [v |-> v, prefix |-> prefix, steps |-> j - 1]
  ELSE divideLoopInclusive([v EXCEPT !.exp = @ - 3], j + 1, bigPrefixes[j])

\* the loop of humanize over the prefixes of 1000 and more, from the j-th
RECURSIVE divideLoop(_, _, _)
divideLoop(v, j, prefix) ==
  IF j > Len(bigPrefixes) \/ Magnitude(v) < 4
  THEN [v |-> v, prefix |-> prefix, steps |-> j - 1]
  ELSE divideLoop([v EXCEPT !.exp = @ - 3], j + 1, bigPrefixes[j])

\* the loop of humanize over the prefixes below 1, from the j-th
RECURSIVE multiplyLoop(_, _, _)
multiplyLoop(v, j, prefix) ==
  IF j > Len(smallPrefixes) \/ Magnitude(v) >= 1
  THEN [v |-> v, prefix |-> prefix, steps |-> j - 1]
  ELSE multiplyLoop([v EXCEPT !.exp = @ + 3], j + 1, smallPrefixes[j])

\* the passes of the loops of humanize over v
scale(v) ==
  IF IsZero(v) \/ v.kind # "num"
  THEN [v |-> v, prefix |-> <<>>, steps |-> 0]
  ELSE IF Magnitude(v) >= 1 THEN divideLoop(v, 1, <<>>)
  ELSE multiplyLoop(v, 1, <<>>)

\* the result of humanize from the parsed number and the scaled number
humanizeScaled(parsed, scaled) ==
  IF parsed.err
  THEN [err |-> TRUE, str |-> <<>>, parsed |-> parsed.v, v |-> parsed.v,
        prefix |-> <<>>, steps |-> 0]
  ELSE [err |-> FALSE, str |-> Format4g(scaled.v) \o scaled.prefix,
        parsed |-> parsed.v, v |-> scaled.v, prefix |-> scaled.prefix,
        steps |-> scaled.steps]

humanizeParsed(parsed) == humanizeScaled(parsed, scale(parsed.v))

\* humanize(i): the text and the error, with the parsed number, the scaled
\* number, the prefix and the number of passes of the loop
humanize(i) == humanizeParsed(ParseFloat(i))

\* the end of extractValue: the text humanized, raw when humanize fails
humanizeOr(raw, h) == IF h.err THEN raw ELSE h.str

extractFirst(valueString, value) ==
  IF Len(value) = 0 THEN valueString
  ELSE humanizeOr(value[1], humanize(value[1]))

extractParts(valueString, parts) ==
  IF Len(parts) # 2 THEN valueString
  ELSE extractFirst(valueString, Split(parts[2], SpaceSep))

extractValue(valueString) ==
  extractParts(valueString, Split(valueString, ValueSep))

(***************************************************************************)
(* chunkBy and groupByStatus.                                              *)
(***************************************************************************)
\* chunkBy with the loop run while chunkSize <= len(items)
RECURSIVE chunkByLoopOffByOne(_, _, _)
chunkByLoopOffByOne(items, chunkSize, chunks) ==
  IF chunkSize <= Len(items)
  THEN chunkByLoopOffByOne(SubSeq(items, chunkSize + 1, Len(items)),
                           chunkSize,
                           Append(chunks, SubSeq(items, 1, chunkSize)))
  ELSE Append(chunks, items)

chunkByOffByOne(items, chunkSize) ==
  chunkByLoopOffByOne(items, chunkSize, <<>>)

RECURSIVE chunkByLoop(_, _, _)
chunkByLoop(items, chunkSize, chunks) ==
  IF chunkSize < Len(items)
  THEN chunkByLoop(SubSeq(items, chunkSize + 1, Len(items)), chunkSize,
                   Append(chunks, SubSeq(items, 1, chunkSize)))
  ELSE Append(chunks, items)

chunkBy(items, chunkSize) == chunkByLoop(items, chunkSize, <<>>)

\* groupAppend with the alert put in front of its group
groupPrepend(grouped, alert) ==
  IF alert.Status \in DOMAIN grouped
  THEN [grouped EXCEPT ![alert.Status] = <<alert>> \o @]
  ELSE [s \in DOMAIN grouped \cup {alert.Status} |->
          IF s = alert.Status THEN <<alert>> ELSE grouped[s]]

\* groupAppend without the continue: the group is overwritten
groupOverwrite(grouped, alert) ==
  [s \in DOMAIN grouped \cup {alert.Status} |->
     IF s = alert.Status THEN <<alert>> ELSE grouped[s]]

groupAppend(grouped, alert) ==
  IF alert.Status \in DOMAIN grouped
  THEN [grouped EXCEPT ![alert.Status] = Append(@, alert)]
  ELSE [s \in DOMAIN grouped \cup {alert.Status} |->
          IF s = alert.Status THEN <<alert>> ELSE grouped[s]]

RECURSIVE groupByStatusLoop(_, _, _)
groupByStatusLoop(alerts, i, grouped) ==
  IF i > Len(alerts) THEN grouped
  ELSE groupByStatusLoop(alerts, i + 1, groupAppend(grouped, alerts[i]))

\* map from status to the alerts with that status
groupByStatus(msg) == groupByStatusLoop(msg.Alerts, 1, <<>>)

(***************************************************************************)
(* The blocks of one alert (the body of the loop over a chunk).            *)
(***************************************************************************)
Url(base, path, args, expr) ==
  [Base |-> base, Path |-> path, Args |-> args, Expr |-> expr]

NewButtonBlockElement(actionID, text, url, style) ==
  [ActionID |-> actionID, Text |-> text, URL |-> url, Style |-> style]

NewBlock(type, text, lbls, blockID, elements) ==
  [Type |-> type, Text |-> text, Labels |-> lbls, BlockID |-> blockID,
   Elements |-> elements]

\* name/value pairs of a map in the order a range visits them
pairsIn(items, order) ==
  [i \in 1..Len(order) |-> <<order[i], items[order[i]]>>]

\* url.ParseRequestURI and Query().Get("g0.expr"): the empty string is no
\* request URI; the expression is read off the URLs the inputs use
ParseRequestURI(rawURL) ==
  IF rawURL = "" THEN [err |-> TRUE, expr |-> ""]
  ELSE [err |-> FALSE,
        expr |-> IF rawURL = "http://prom/graph?g0.expr=up" THEN "up" ELSE ""]

generatorButton(alert, items, order) ==
  NewButtonBlockElement("generator", ":information_source: Details",
    IF grafanaAlertSource
    THEN Url(alert.GeneratorURL, "", <<>>, "")
    ELSE Url(grafanaUrl, "/alerting/list?queryString=",
             pairsIn(items, order), ""),
    "primary")

exploreButton(alert) ==
  IF grafanaAlertSource THEN <<>>
  ELSE LET parsed == ParseRequestURI(alert.GeneratorURL)
       IN IF parsed.err THEN <<>>
          ELSE <<NewButtonBlockElement("explore",
                   ":chart_with_upwards_trend: Explore",
                   Url(grafanaUrl, "/explore?left=", <<>>, parsed.expr),
                   "primary")>>

\* runbookButton without the test of the status
runbookButtonAnyStatus(alert) ==
  IF /\ "runbook_url" \in DOMAIN alert.Annotations
     /\ alert.Annotations["runbook_url"] # ""
  THEN <<NewButtonBlockElement("runbook", ":page_with_curl: Runbook",
           Url(alert.Annotations["runbook_url"], "", <<>>, ""), "default")>>
  ELSE <<>>

runbookButton(alert) ==
  IF /\ alert.Status # "resolved"
     /\ "runbook_url" \in DOMAIN alert.Annotations
     /\ alert.Annotations["runbook_url"] # ""
  THEN <<NewButtonBlockElement("runbook", ":page_with_curl: Runbook",
           Url(alert.Annotations["runbook_url"], "", <<>>, ""), "default")>>
  ELSE <<>>

silenceShown(alert) ==
  alert.Status # "resolved" /\ ~disableGrafanaSilenceButton

silenceButton(alert, items, order) ==
  IF silenceShown(alert)
  THEN <<NewButtonBlockElement("silence", ":no_bell: Silence",
           IF grafanaAlertSource
           THEN Url(alert.SilenceURL, "", <<>>, "")
           ELSE Url(grafanaUrl,
                    "/alerting/silence/new?alertmanager=Alertmanager&",
                    pairsIn(items, order), ""),
           "danger")>>
  ELSE <<>>

buttons(alert, items, og, os) ==
  <<generatorButton(alert, items, og)>> \o exploreButton(alert)
    \o runbookButton(alert) \o silenceButton(alert, items, os)

contextElements(alert) ==
  (IF alert.ValueString # <<>>
   THEN <<[Type |-> "plain_text", Text |-> "Value",
           Value |-> extractValue(alert.ValueString)]>>
   ELSE <<>>)
  \o <<[Type |-> "mrkdwn", Text |-> "Started at",
        Unix |-> alert.StartsAt.unix]>>
  \o (IF ~alert.EndsAt.zero
      THEN <<[Type |-> "mrkdwn", Text |-> "Ended at",
              Unix |-> alert.EndsAt.unix]>>
      ELSE <<>>)

summaryText(alert) ==
  IF alert.Status # "resolved"
  THEN <<":sos: ", Get(alert.Annotations, "summary")>>
  ELSE <<":large_green_circle: ", Get(alert.Annotations, "summary")>>

\* descriptionBlock without the test of the empty description
descriptionBlockIfPresent(alert) ==
  IF "description" \in DOMAIN alert.Annotations
  THEN <<NewBlock("section", <<alert.Annotations["description"]>>, <<>>,
                  <<>>, <<>>)>>
  ELSE <<>>

descriptionBlock(alert) ==
  IF /\ "description" \in DOMAIN alert.Annotations
     /\ alert.Annotations["description"] # ""
  THEN <<NewBlock("section", <<alert.Annotations["description"]>>, <<>>,
                  <<>>, <<>>)>>
  ELSE <<>>

\* the loop that writes "@" + value over the team label, in the map itself
markTeam(items) ==
  [name \in DOMAIN items |->
     IF name = TeamLabel THEN <<64>> \o items[name] ELSE items[name]]

\* jsonMarshal with the keys left in the order they are collected
jsonMarshalUnsorted(items) == {pairsIn(items, o) : o \in Orders(items)}

\* json.Marshal of a map: the pairs, sorted by key, whatever the order in
\* which the keys are collected
jsonMarshal(items) == {pairsIn(items, SortStrings(o)) : o \in Orders(items)}

\* the section whose text is labelsStr between two code fences
labelsBlock(labelsStr) ==
  NewBlock("section", <<"fence", "fence">>, labelsStr, <<>>, <<>>)

\* the blocks appended for the alert at index i of its chunk
alertBlocks(alert, i, btns, labelsStr, actionsHash, contextHash) ==
  (IF i # 0 THEN <<NewBlock("divider", <<>>, <<>>, <<>>, <<>>)>> ELSE <<>>)
  \o <<NewBlock("header", summaryText(alert), <<>>, <<>>, <<>>)>>
  \o descriptionBlock(alert)
  \o <<labelsBlock(labelsStr)>>
  \o <<NewBlock("actions", <<>>, <<>>, <<"actions-", actionsHash>>, btns)>>
  \o <<NewBlock("context", <<>>, <<>>, <<"context-", contextHash>>,
                contextElements(alert))>>

\* a range over the map that runs only when the condition holds
rangeIf(cond, items) == IF cond THEN Orders(items) ELSE {<<>>}

\* every outcome of one pass of the loop: the blocks, and the heap after it
alertOutcomes(alert, i, heap) ==
  LET items == heap[alert.Labels]
      marked == markTeam(items)
  IN {[blocks |-> alertBlocks(alert, i, buttons(alert, items, og, os),
                              labelsStr, ha, hc),
       heap |-> [heap EXCEPT ![alert.Labels] = marked]] :
        og \in rangeIf(~grafanaAlertSource, items),
        os \in rangeIf(silenceShown(alert) /\ ~grafanaAlertSource, items),
        labelsStr \in jsonMarshal(marked),
        ha \in hash(marked),
        hc \in hash(marked)}

(***************************************************************************)
(* buildMessages.                                                          *)
(***************************************************************************)
accumulate(text, alert) ==
  text \o <<"[", Get(alert.Annotations, "summary"), "] ">>

\* previewText with the one prefix for both accumulators
previewTextOnePrefix(firedText, resolvedText) ==
  IF firedText # <<>> \/ resolvedText # <<>>
  THEN <<"Fired: ">> \o firedText \o resolvedText
  ELSE <<>>

previewText(firedText, resolvedText) ==
  IF firedText # <<>> THEN <<"Fired: ">> \o firedText
  ELSE IF resolvedText # <<>> THEN <<"Resolved: ">> \o resolvedText
  ELSE <<>>

\* every outcome of rendering the first n alerts of a chunk
RECURSIVE chunkOutcomes(_, _, _)
chunkOutcomes(alerts, n, heap) ==
  IF n = 0
  THEN {[blocks |-> <<>>, firedText |-> <<>>, resolvedText |-> <<>>,
         heap |-> heap]}
  ELSE UNION {
         {[blocks |-> pre.blocks \o o.blocks,
           firedText |-> IF alerts[n].Status # "resolved"
                         THEN accumulate(pre.firedText, alerts[n])
                         ELSE pre.firedText,
           resolvedText |-> IF alerts[n].Status # "resolved"
                            THEN pre.resolvedText
                            ELSE accumulate(pre.resolvedText, alerts[n]),
           heap |-> o.heap] :
            o \in alertOutcomes(alerts[n], n - 1, pre.heap)} :
         pre \in chunkOutcomes(alerts, n - 1, heap)}

\* the message of a chunk; alerts, firedText and resolvedText record the
\* chunk and the two accumulators it was built from
WebhookMessage(o, alerts, channel) ==
  [Username |-> username, Channel |-> channel,
   Text |-> previewText(o.firedText, o.resolvedText), Blocks |-> o.blocks,
   alerts |-> alerts, firedText |-> o.firedText,
   resolvedText |-> o.resolvedText]

\* every outcome of rendering the first n chunks
RECURSIVE messagesOutcomes(_, _, _, _)
messagesOutcomes(chunks, n, heap, channel) ==
  IF n = 0 THEN {[messages |-> <<>>, heap |-> heap]}
  ELSE UNION {
         {[messages |-> Append(pre.messages,
                               WebhookMessage(o, chunks[n], channel)),
           heap |-> o.heap] :
            o \in chunkOutcomes(chunks[n], Len(chunks[n]), pre.heap)} :
         pre \in messagesOutcomes(chunks, n - 1, heap, channel)}

\* the chunks of all groups, the groups visited in the given order
chunksIn(grouped, order) ==
  Flatten([g \in 1..Len(order) |-> chunkBy(grouped[order[g]], 7)])

\* every outcome of buildMessages: the messages and the heap it leaves
buildMessages(msg, heap, channel) ==
  LET alertsByStatus == groupByStatus(msg)
  IN UNION {messagesOutcomes(chunksIn(alertsByStatus, order),
                             Len(chunksIn(alertsByStatus, order)),
                             heap, channel) :
              order \in Perms(DOMAIN alertsByStatus)}

(***************************************************************************)
(* buildMessage, the one-message revision kept in src/go.mod: every alert  *)
(* of the batch in one message, the labels as fields in blocks of ten, the *)
(* same two block identifiers for every alert.                             *)
(***************************************************************************)
messageButtons(alert) ==
  <<NewButtonBlockElement("generator", ":chart_with_upwards_trend: Details",
      Url(alert.GeneratorURL, "", <<>>, ""), "primary")>>
  \o runbookButton(alert)
  \o (IF alert.Status # "resolved"
      THEN <<NewButtonBlockElement("silence", ":no_bell: Silence",
               Url(alert.SilenceURL, "", <<>>, ""), "danger")>>
      ELSE <<>>)

\* maps.Keys in the order keys, then sort.Strings, then one field per name
labelFields(items, keys) == pairsIn(items, SortStrings(keys))

labelBlocks(fields) ==
  LET chunkedLabelFields == chunkBy(fields, 10)
  IN [c \in 1..Len(chunkedLabelFields) |->
        NewBlock("section", <<>>, chunkedLabelFields[c], <<>>, <<>>)]

messageContext(alert) ==
  (IF alert.ValueString # <<>>
   THEN <<[Type |-> "plain_text", Text |-> "Value",
           Value |-> extractValue(alert.ValueString)]>>
   ELSE <<>>)
  \o <<[Type |-> "plain_text", Text |-> "Started at",
        Unix |-> alert.StartsAt.unix]>>
  \o (IF ~alert.EndsAt.zero
      THEN <<[Type |-> "plain_text", Text |-> "Ended at",
              Unix |-> alert.EndsAt.unix]>>
      ELSE <<>>)

messageDescription(alert) ==
  IF /\ "description" \in DOMAIN alert.Annotations
     /\ alert.Annotations["description"] # ""
  THEN <<NewBlock("section", <<"> ", alert.Annotations["description"]>>,
                  <<>>, <<>>, <<>>)>>
  ELSE <<>>

messageAlertBlocks(alert, i, fields) ==
  (IF i # 0 THEN <<NewBlock("divider", <<>>, <<>>, <<>>, <<>>)>> ELSE <<>>)
  \o <<NewBlock("header", summaryText(alert), <<>>, <<>>, <<>>)>>
  \o messageDescription(alert)
  \o labelBlocks(fields)
  \o <<NewBlock("actions", <<>>, <<>>, <<"actions", <<>>>>,
                messageButtons(alert))>>
  \o <<NewBlock("context", <<>>, <<>>, <<"context", <<>>>>,
                messageContext(alert))>>

\* every outcome of the loop over the first n alerts
RECURSIVE messageBlocks(_, _, _)
messageBlocks(alerts, n, heap) ==
  IF n = 0 THEN {<<>>}
  ELSE {pre \o messageAlertBlocks(alerts[n], n - 1,
                                  labelFields(heap[alerts[n].Labels], keys)) :
          pre \in messageBlocks(alerts, n - 1, heap),
          keys \in Orders(heap[alerts[n].Labels])}

buildMessage(msg, heap, channel) ==
  {[messages |-> <<[Username |-> username, Channel |-> channel,
                    Text |-> <<>>, Blocks |-> blocks, alerts |-> msg.Alerts,
                    firedText |-> <<>>, resolvedText |-> <<>>]>>,
    heap |-> heap] :
     blocks \in messageBlocks(msg.Alerts, Len(msg.Alerts), heap)}

(***************************************************************************)
(* Value strings and number texts.                                         *)
(***************************************************************************)
MaxScale == 10          \* largest power of 1000 of the numbers
MaxResults == 2         \* most results embedded in a value string

\* 0, 1, 1.5, 42, 999, 1000, 999.9, 123456, 0.0025, 0.9999, .5
Mantissas ==
  {<<48>>, <<49>>, <<49, 46, 53>>, <<52, 50>>, <<57, 57, 57>>,
   <<49, 48, 48, 48>>, <<57, 57, 57, 46, 57>>, <<49, 50, 51, 52, 53, 54>>,
   <<48, 46, 48, 48, 50, 53>>, <<48, 46, 57, 57, 57, 57>>, <<46, 53>>}

\* e3, e-3, e6, ...; nothing for 0
ExponentText(x) ==
  IF x = 0 THEN <<>>
  ELSE IF x < 0 THEN <<101, 45>> \o Itoa(0 - x)
  ELSE <<101>> \o Itoa(x)

\* texts at the edges of the grammar and of the range: '', 'abc', '1e', '.', '1.2.3', '-nan', 'infin', '1e400', '0e400', '1e-400'
EdgeTexts ==
  {<<>>, <<97, 98, 99>>, <<49, 101>>, <<46>>, <<49, 46, 50, 46, 51>>,
   <<45, 110, 97, 110>>, <<105, 110, 102, 105, 110>>,
   <<49, 101, 52, 48, 48>>, <<48, 101, 52, 48, 48>>,
   <<49, 101, 45, 52, 48, 48>>}

\* NaN, nan, Inf, -Inf, +Infinity
SpecialNumbers ==
  {<<78, 97, 78>>, <<110, 97, 110>>, <<73, 110, 102>>, <<45, 73, 110, 102>>,
   <<43, 73, 110, 102, 105, 110, 105, 116, 121>>}

NumberTexts ==
  {sign \o m \o ExponentText(3 * j) :
     sign \in {<<>>, <<45>>}, m \in Mantissas, j \in (0 - MaxScale)..MaxScale}
  \cup EdgeTexts \cup SpecialNumbers

\* what follows "value=": '42', '1500', '0.0025', '-1500000', 'NaN', 'abc', '', '1e400'
ResultTexts ==
  {<<52, 50>>, <<49, 53, 48, 48>>, <<48, 46, 48, 48, 50, 53>>,
   <<45, 49, 53, 48, 48, 48, 48, 48>>, <<78, 97, 78>>, <<97, 98, 99>>, <<>>,
   <<49, 101, 52, 48, 48>>}

\* "[ var='B' labels={job=x} "
ResultHead == <<91, 32, 118, 97, 114, 61, 39, 66, 39, 32, 108, 97, 98, 101, 108, 115, 61, 123, 106, 111, 98, 61, 120, 125, 32>>

\* " ]"
ResultTail == <<32, 93>>

\* ", "
ResultJoin == <<44, 32>>

\* the value string of k results, k >= 1
RECURSIVE Results(_)
Results(k) ==
  LET one == {ResultHead \o ValueSep \o x \o ResultTail : x \in ResultTexts}
  IN IF k = 1 THEN one
     ELSE {r \o ResultJoin \o s : r \in Results(k - 1), s \in one}

\* value strings without "value=": '', 'value', "[ var='B' labels={job=x} ]", '42', 'Value=42'
PlainTexts ==
  {<<>>, <<118, 97, 108, 117, 101>>,
   <<91, 32, 118, 97, 114, 61, 39, 66, 39, 32, 108, 97, 98, 101, 108, 115, 61, 123, 106, 111, 98, 61, 120, 125, 32, 93>>,
   <<52, 50>>, <<86, 97, 108, 117, 101, 61, 52, 50>>}

\* one result, bare or with other text around it
SingleResults ==
  {head \o ValueSep \o x \o tail :
     head \in {<<>>, ResultHead}, x \in ResultTexts,
     tail \in {<<>>, SpaceSep, ResultTail}}

ValueStrings ==
  PlainTexts \cup SingleResults
  \cup UNION {Results(k) : k \in 1..MaxResults}

(***************************************************************************)
(* Request bodies.  A body is malformed JSON, or the JSON of a batch: its  *)
(* alerts carry their label maps by value.                                 *)
(***************************************************************************)
Time(unix) == [zero |-> FALSE, unix |-> unix]
ZeroTime == [zero |-> TRUE, unix |-> 0]

Malformed == [malformed |-> TRUE, Alerts |-> <<>>]
Batch(alerts) == [malformed |-> FALSE, Alerts |-> alerts]

JsonAlert(status, lbls, annotations, startsAt, endsAt, generatorURL) ==
  [Status |-> status, Labels |-> lbls, Annotations |-> annotations,
   StartsAt |-> startsAt, EndsAt |-> endsAt, GeneratorURL |-> generatorURL,
   SilenceURL |-> "http://grafana/silence", ValueString |-> <<>>]

Statuses == {"firing", "resolved", "pending"}

\* {}, {a:1}, {a:1,b:2}, {ab:c}, {a:bc}, {team:x}, {a:1,team:x}
SmallLabelMaps ==
  {[name \in {} |-> <<>>],
   [name \in {<<97>>} |-> <<49>>],
   [name \in {<<97>>, <<98>>} |-> IF name = <<97>> THEN <<49>> ELSE <<50>>],
   [name \in {<<97, 98>>} |-> <<99>>],
   [name \in {<<97>>} |-> <<98, 99>>],
   [name \in {TeamLabel} |-> <<120>>],
   [name \in {<<97>>, TeamLabel} |-> IF name = <<97>> THEN <<49>> ELSE <<120>>]}

AnnotationMaps ==
  {[description |-> "high load"],
   [summary |-> "cpu"],
   [summary |-> "cpu", description |-> "high load"],
   [summary |-> "cpu", runbook_url |-> ""],
   [summary |-> "cpu", description |-> "", runbook_url |-> "http://runbook"]}

GeneratorURLs == {"", "http://prom/graph?g0.expr=up"}

\* one alert, of every shape
RenderBodies ==
  {Batch(<<JsonAlert(st, lm, an, Time(1), en, gu)>>) :
     st \in Statuses, lm \in SmallLabelMaps, an \in AnnotationMaps,
     en \in {ZeroTime, Time(2)}, gu \in GeneratorURLs}

PairAlerts ==
  {JsonAlert(st, lm, [summary |-> "cpu"], Time(1), ZeroTime, "") :
     st \in {"firing", "resolved"},
     lm \in {m \in SmallLabelMaps : TeamLabel \notin DOMAIN m /\ DOMAIN m # {}}}

\* two alerts, among them alerts with equal label maps and with label maps
\* of equal name+value text
PairBodies == {Batch(<<a, b>>) : a, b \in PairAlerts}

\* n labels a, b, c, ... with values 1, 2, 3, ...
ManyLabels(n) ==
  [name \in {<<96 + i>> : i \in 1..n} |-> <<48 + ((name[1] - 96) % 10)>>]

ManyLabelBodies ==
  {Batch(<<JsonAlert("firing", ManyLabels(n), [summary |-> "cpu"], Time(1),
                     ZeroTime, "")>>) : n \in 0..MaxLabels}

\* one alert with a value string
ValueBodies ==
  {Batch(<<[JsonAlert(st, [name \in {<<97>>} |-> <<49>>], [summary |-> "cpu"],
                      Time(1), ZeroTime, "") EXCEPT !.ValueString = vs]>>) :
     st \in {"firing", "resolved"},
     vs \in PlainTexts \cup Results(1) \cup Results(2)}

\* status of the i-th alert of a pattern: alert p (if any) is pending; the
\* others fire up to k ("block") or at the multiples of k + 1 ("stripe")
PatternStatus(i, k, p, mode) ==
  IF i = p THEN "pending"
  ELSE IF mode = "block"
       THEN (IF i <= k THEN "firing" ELSE "resolved")
       ELSE (IF i % (k + 1) = 0 THEN "firing" ELSE "resolved")

PatternAlert(i, status) ==
  JsonAlert(status, [name \in {<<97>>} |-> <<48 + (i % 10)>>],
            [summary |-> "s" \o ToString(i)], Time(i),
            IF status = "resolved" THEN Time(i + 1) ELSE ZeroTime,
            "http://prom/graph?g0.expr=up")

PatternBody(n, k, p, mode) ==
  Batch([i \in 1..n |-> PatternAlert(i, PatternStatus(i, k, p, mode))])

\* the annotations of the i-th alert of a batch whose alerts carry a
\* description all, none, every other one, or an empty one every other one
DescribedAnnotations(i, mode) ==
  IF mode = "all" \/ (mode \in {"odd", "empty"} /\ i % 2 = 1)
  THEN [summary |-> "s" \o ToString(i), description |-> "high load"]
  ELSE IF mode = "empty"
       THEN [summary |-> "s" \o ToString(i), description |-> ""]
       ELSE [summary |-> "s" \o ToString(i)]

\* n firing alerts with and without descriptions
DescribedBodies ==
  {Batch([i \in 1..n |->
            JsonAlert("firing", [name \in {<<97>>} |-> <<48 + (i % 10)>>],
                      DescribedAnnotations(i, mode), Time(i), ZeroTime, "")]) :
     n \in 0..MaxAlerts, mode \in {"all", "none", "odd", "empty"}}

\* batches of up to MaxAlerts alerts
ChunkBodies ==
  {PatternBody(n, k, p, mode) :
     n \in 0..MaxAlerts, k \in 0..MaxAlerts, p \in {0, 1, 8},
     mode \in {"block", "stripe"}}

GatewayBodies ==
  {Malformed}
  \cup {PatternBody(n, k, 0, "block") :
          n \in 0..MaxGatewayAlerts, k \in 0..MaxGatewayAlerts}

(***************************************************************************)
(* handleWebhookRequest.                                                   *)
(***************************************************************************)
\* json.Unmarshal into GrafanaMsg: every alert gets a map of its own
jsonUnmarshal(b) ==
  [err |-> b.malformed,
   msg |-> [Alerts |-> [i \in 1..Len(b.Alerts) |->
                          [b.Alerts[i] EXCEPT !.Labels = i]]],
   heap |-> [i \in 1..Len(b.Alerts) |-> b.Alerts[i].Labels]]

channelOf(q) == IF q = "" THEN "alerts" ELSE q

NoMsg == [Alerts |-> <<>>]

\* the body is read and decoded and the messages are built; a failed read
\* or decode answers at once
ReadAndBuild ==
  /\ pc = "read"
  /\ \E readErr \in BOOLEAN :
       LET decoded == jsonUnmarshal(body)
       IN IF readErr \/ decoded.err
          THEN /\ response' = StatusInternalServerError
               /\ pc' = "done"
               /\ UNCHANGED <<grafanaMsg, labels, slackMsgs, rendered>>
          ELSE /\ \E o \in buildMessages(decoded.msg, decoded.heap,
                                         channelOf(query)) :
                    /\ slackMsgs' = o.messages
                    /\ labels' = o.heap
               /\ grafanaMsg' = decoded.msg
               /\ rendered' = "buildMessages"
               /\ pc' = "post"
               /\ UNCHANGED response
  /\ UNCHANGED <<body, query, grafanaAlertSource,
                 disableGrafanaSilenceButton, posted, lastError>>
  /\ UNCHANGED valueVars

\* PostWebhook with lastError holding the outcome of the last call only
PostWebhookLastOnly ==
  /\ pc = "post"
  /\ Len(posted) < Len(slackMsgs)
  /\ \E err \in BOOLEAN :
       /\ posted' = Append(posted,
                           [msg |-> slackMsgs[Len(posted) + 1], err |-> err])
       /\ lastError' = IF err THEN Len(posted) + 1 ELSE 0
  /\ UNCHANGED <<body, query, grafanaAlertSource,
                 disableGrafanaSilenceButton, grafanaMsg, labels, slackMsgs,
                 rendered, pc, response>>
  /\ UNCHANGED valueVars

\* one pass of the loop over slackMsgs: the call fails or not
PostWebhook ==
  /\ pc = "post"
  /\ Len(posted) < Len(slackMsgs)
  /\ \E err \in BOOLEAN :
       /\ posted' = Append(posted,
                           [msg |-> slackMsgs[Len(posted) + 1], err |-> err])
       /\ lastError' = IF err THEN Len(posted) + 1 ELSE lastError
  /\ UNCHANGED <<body, query, grafanaAlertSource,
                 disableGrafanaSilenceButton, grafanaMsg, labels, slackMsgs,
                 rendered, pc, response>>
  /\ UNCHANGED valueVars

\* WriteResponse with the handler returning at the first failed call
WriteResponseAtFirstError ==
  /\ pc = "post"
  /\ Len(posted) = Len(slackMsgs) \/ lastError # 0
  /\ response' = IF lastError # 0 THEN StatusInternalServerError
                 ELSE StatusOK
  /\ pc' = "done"
  /\ UNCHANGED <<body, query, grafanaAlertSource,
                 disableGrafanaSilenceButton, grafanaMsg, labels, slackMsgs,
                 rendered, posted, lastError>>
  /\ UNCHANGED valueVars

\* after the loop
WriteResponse ==
  /\ pc = "post"
  /\ Len(posted) = Len(slackMsgs)
  /\ response' = IF lastError # 0 THEN StatusInternalServerError
                 ELSE StatusOK
  /\ pc' = "done"
  /\ UNCHANGED <<body, query, grafanaAlertSource,
                 disableGrafanaSilenceButton, grafanaMsg, labels, slackMsgs,
                 rendered, posted, lastError>>
  /\ UNCHANGED valueVars

\* no value computed yet
NotHumanized ==
  [err |-> FALSE, str |-> <<>>, parsed |-> Number(FALSE, 0, 0),
   v |-> Number(FALSE, 0, 0), prefix |-> <<>>, steps |-> 0]

InitHandler ==
  /\ extracted = <<>>
  /\ humanized = NotHumanized
  /\ grafanaMsg = NoMsg
  /\ labels = <<>>
  /\ slackMsgs = <<>>
  /\ rendered = ""
  /\ posted = <<>>
  /\ lastError = 0
  /\ response = 0

Init ==
  /\ body \in GatewayBodies
  /\ query \in {"", "ops"}
  /\ grafanaAlertSource = TRUE
  /\ disableGrafanaSilenceButton = TRUE
  /\ pc = "read"
  /\ valueInput = <<>>
  /\ InitHandler

Next == ReadAndBuild \/ PostWebhook \/ WriteResponse

Spec == Init /\ [][Next]_vars

(***************************************************************************)
(* buildMessages alone: a batch is decoded and rendered, again and again.  *)
(***************************************************************************)
Render ==
  /\ pc = "render"
  /\ LET decoded == jsonUnmarshal(body)
     IN /\ \E o \in buildMessages(decoded.msg, decoded.heap,
                                  channelOf(query)) :
             /\ slackMsgs' = o.messages
             /\ labels' = o.heap
        /\ grafanaMsg' = decoded.msg
  /\ rendered' = "buildMessages"
  /\ UNCHANGED <<body, query, grafanaAlertSource,
                 disableGrafanaSilenceButton, pc, posted, lastError,
                 response>>
  /\ UNCHANGED valueVars

\* the same with buildMessage
RenderSingle ==
  /\ pc = "render"
  /\ LET decoded == jsonUnmarshal(body)
     IN /\ \E o \in buildMessage(decoded.msg, decoded.heap,
                                 channelOf(query)) :
             /\ slackMsgs' = o.messages
             /\ labels' = o.heap
        /\ grafanaMsg' = decoded.msg
  /\ rendered' = "buildMessage"
  /\ UNCHANGED <<body, query, grafanaAlertSource,
                 disableGrafanaSilenceButton, pc, posted, lastError,
                 response>>
  /\ UNCHANGED valueVars

InitRender ==
  /\ \/ /\ body \in ChunkBodies \cup ManyLabelBodies \cup PairBodies
                    \cup ValueBodies \cup DescribedBodies
        /\ grafanaAlertSource = TRUE
        /\ disableGrafanaSilenceButton = TRUE
     \/ /\ body \in RenderBodies
        /\ grafanaAlertSource \in BOOLEAN
        /\ disableGrafanaSilenceButton \in BOOLEAN
  /\ query = "ops"
  /\ pc = "render"
  /\ valueInput = <<>>
  /\ InitHandler

NextRender == Render \/ RenderSingle

SpecRender == InitRender /\ [][NextRender]_vars

(***************************************************************************)
(* extractValue and humanize alone: a text is drawn and one of the two is  *)
(* applied to it.                                                          *)
(***************************************************************************)
ExtractValue ==
  /\ pc = "value"
  /\ extracted' = extractValue(valueInput)
  /\ pc' = "extractValue"
  /\ UNCHANGED <<body, query, grafanaAlertSource,
                 disableGrafanaSilenceButton, grafanaMsg, labels, slackMsgs,
                 rendered, posted, lastError, response, valueInput,
                 humanized>>

Humanize ==
  /\ pc = "value"
  /\ humanized' = humanize(valueInput)
  /\ pc' = "humanize"
  /\ UNCHANGED <<body, query, grafanaAlertSource,
                 disableGrafanaSilenceButton, grafanaMsg, labels, slackMsgs,
                 rendered, posted, lastError, response, valueInput,
                 extracted>>

InitValue ==
  /\ valueInput \in ValueStrings \cup NumberTexts
  /\ body = Batch(<<>>)
  /\ query = ""
  /\ grafanaAlertSource = TRUE
  /\ disableGrafanaSilenceButton = TRUE
  /\ pc = "value"
  /\ InitHandler

NextValue == ExtractValue \/ Humanize

SpecValue == InitValue /\ [][NextValue]_vars

(***************************************************************************)
(* Properties.                                                             *)
(***************************************************************************)
Ceil(n, d) == (n + d - 1) \div d

\* the alerts of the decoded batch with the status st, in batch order
WithStatus(st) == SelectSeq(grafanaMsg.Alerts, LAMBDA a : a.Status = st)

StatusesPresent ==
  {grafanaMsg.Alerts[i].Status : i \in 1..Len(grafanaMsg.Alerts)}

MessagesFor(st) == Ceil(Len(WithStatus(st)), 7)

\* the sum of MessagesFor over the statuses S
RECURSIVE MessagesForAll(_)
MessagesForAll(S) ==
  IF S = {} THEN 0
  ELSE LET st == CHOOSE x \in S : TRUE
       IN MessagesFor(st) + MessagesForAll(S \ {st})

BlocksOfType(m, type) == SelectSeq(m.Blocks, LAMBDA b : b.Type = type)

ByBuildMessages == rendered = "buildMessages"

\* C1: the number of messages buildMessages returns is the sum, over the
\* statuses present in the batch, of ceil(groupSize/7); an empty batch gives
\* no message and a group of exactly 7 alerts gives one.
C1_MessageCount ==
  ByBuildMessages =>
    Len(slackMsgs) = MessagesForAll(StatusesPresent)

\* a batch with a group of exactly 7 and a group of 8 alerts, rendered
C1_Witness ==
  /\ ByBuildMessages
  /\ \E st, su \in StatusesPresent :
       Len(WithStatus(st)) = 7 /\ Len(WithStatus(su)) = 8
  /\ Len(slackMsgs) = 3

\* m.alerts is a slice of at most 7 consecutive alerts of seq
IsSlice(alerts, seq) ==
  /\ Len(alerts) \in 1..7
  /\ \E lo \in 1..Len(seq) :
       /\ lo + Len(alerts) - 1 <= Len(seq)
       /\ alerts = SubSeq(seq, lo, lo + Len(alerts) - 1)

\* the headers of the message are those of its alerts, in order
HeadersInOrder(m) ==
  LET headers == BlocksOfType(m, "header")
  IN /\ Len(headers) = Len(m.alerts)
     /\ \A i \in 1..Len(headers) : headers[i].Text = summaryText(m.alerts[i])

\* C4: the alerts a message renders are, in batch order, a contiguous slice
\* of at most 7 of the batch's alerts that have the message's status, and
\* they are rendered in that order.
C4_OrderPreserved ==
  ByBuildMessages =>
    \A k \in 1..Len(slackMsgs) :
      /\ IsSlice(slackMsgs[k].alerts,
                 WithStatus(slackMsgs[k].alerts[1].Status))
      /\ HeadersInOrder(slackMsgs[k])

\* a message whose alerts are not neighbours in the batch, and a message
\* that starts at the eighth alert of its group
C4_Witness ==
  /\ ByBuildMessages
  /\ \E k \in 1..Len(slackMsgs) :
       /\ Len(slackMsgs[k].alerts) = 7
       /\ slackMsgs[k].alerts[2].Labels > slackMsgs[k].alerts[1].Labels + 1
  /\ \E k \in 1..Len(slackMsgs) :
       LET a == slackMsgs[k].alerts[1]
       IN Len(WithStatus(a.Status)) >= 8 /\ WithStatus(a.Status)[8] = a

ActionIDs(block) == {block.Elements[e].ActionID : e \in 1..Len(block.Elements)}

HasRunbookURL(alert) ==
  /\ "runbook_url" \in DOMAIN alert.Annotations
  /\ alert.Annotations["runbook_url"] # ""

\* C5: in every configuration a resolved alert gets neither a Silence nor a
\* Runbook button, and an alert that is not resolved gets a Runbook button
\* iff its runbook_url annotation is present and not empty.
C5_Buttons ==
  rendered # "" =>
    \A k \in 1..Len(slackMsgs) :
      LET actions == BlocksOfType(slackMsgs[k], "actions")
      IN /\ Len(actions) = Len(slackMsgs[k].alerts)
         /\ \A i \in 1..Len(actions) :
              LET alert == slackMsgs[k].alerts[i]
                  ids == ActionIDs(actions[i])
              IN IF alert.Status = "resolved"
                 THEN "silence" \notin ids /\ "runbook" \notin ids
                 ELSE ("runbook" \in ids) <=> HasRunbookURL(alert)

\* a resolved alert with a runbook_url, rendered with the silence button
\* enabled in external mode
C5_Witness ==
  /\ ByBuildMessages
  /\ ~disableGrafanaSilenceButton
  /\ ~grafanaAlertSource
  /\ \E k \in 1..Len(slackMsgs) :
       \E i \in 1..Len(slackMsgs[k].alerts) :
         /\ slackMsgs[k].alerts[i].Status = "resolved"
         /\ HasRunbookURL(slackMsgs[k].alerts[i])

\* a firing alert with a runbook_url and both buttons in its row
C5_WitnessFiring ==
  /\ ByBuildMessages
  /\ \E k \in 1..Len(slackMsgs) :
       LET actions == BlocksOfType(slackMsgs[k], "actions")
       IN \E i \in 1..Len(actions) :
            {"runbook", "silence"} \subseteq ActionIDs(actions[i])

Bracketed(alerts) ==
  Flatten([i \in 1..Len(alerts) |->
             <<"[", Get(alerts[i].Annotations, "summary"), "] ">>])

\* C10: all the alerts of a message have one status, so exactly one of the
\* two accumulators is not empty; the preview text is "Fired: " or
\* "Resolved: " followed by the bracketed summaries of the alerts in order,
\* and a header carries the firing marker iff the status is not "resolved".
C10_Preview ==
  ByBuildMessages =>
    \A k \in 1..Len(slackMsgs) :
      LET m == slackMsgs[k]
          firing == m.alerts[1].Status # "resolved"
          headers == BlocksOfType(m, "header")
      IN /\ \A i \in 1..Len(m.alerts) :
              m.alerts[i].Status = m.alerts[1].Status
         /\ (m.firedText # <<>>) # (m.resolvedText # <<>>)
         /\ m.Text = (IF firing THEN <<"Fired: ">> ELSE <<"Resolved: ">>)
                       \o Bracketed(m.alerts)
         /\ Len(headers) = Len(m.alerts)
         /\ \A i \in 1..Len(headers) :
              (headers[i].Text[1] = ":sos: ") <=> firing

\* a batch rendered as a "Fired: " and a "Resolved: " message
C10_Witness ==
  /\ ByBuildMessages
  /\ \E j, k \in 1..Len(slackMsgs) :
       /\ slackMsgs[j].Text[1] = "Fired: "
       /\ Len(slackMsgs[j].alerts) > 1
       /\ slackMsgs[k].Text[1] = "Resolved: "

PositionsOfType(m, type) ==
  SelectSeq([j \in 1..Len(m.Blocks) |-> j],
            LAMBDA j : m.Blocks[j].Type = type)

\* a section that shows labels: fields, or a fenced text
IsLabelBlock(b) ==
  b.Type = "section" /\ (b.Text = <<>> \/ b.Text = <<"fence", "fence">>)

\* the label blocks of the i-th alert of the message: those between its
\* header and its action block
LabelBlocksOf(m, i) ==
  SelectSeq(SubSeq(m.Blocks, PositionsOfType(m, "header")[i] + 1,
                   PositionsOfType(m, "actions")[i] - 1),
            IsLabelBlock)

LabelsShown(m, i) ==
  Flatten([j \in 1..Len(LabelBlocksOf(m, i)) |-> LabelBlocksOf(m, i)[j].Labels])

\* pairs holds every entry of the map items once, in the order of the names
EveryLabelOnceSorted(pairs, items) ==
  /\ Len(pairs) = Cardinality(DOMAIN items)
  /\ \A j \in 1..Len(pairs) :
       pairs[j][1] \in DOMAIN items /\ pairs[j][2] = items[pairs[j][1]]
  /\ \A j \in 1..(Len(pairs) - 1) : Less(pairs[j][1], pairs[j + 1][1])

C6_WitnessFields ==
  /\ rendered = "buildMessage"
  /\ Len(LabelBlocksOf(slackMsgs[1], 1)) = 2
  /\ Len(LabelsShown(slackMsgs[1], 1)) = 11

SameAlerts(a, b) ==
  /\ Len(a) = Len(b)
  /\ \A k \in 1..Len(a) : a[k].alerts = b[k].alerts

\* C7: two renders of one batch by buildMessages return the same number of
\* messages in the same order with the same alerts in each.
C7_SameMessageSequence ==
  [][(rendered = "buildMessages" /\ rendered' = "buildMessages")
       => SameAlerts(slackMsgs, slackMsgs')]_vars

\* the identifiers of the action and the context block of the alert whose
\* labels are at the address a
BlockIDsOf(msgs, a) ==
  LET at == CHOOSE ki \in {<<k, i>> : k \in 1..Len(msgs), i \in 1..7} :
              /\ ki[2] <= Len(msgs[ki[1]].alerts)
              /\ msgs[ki[1]].alerts[ki[2]].Labels = a
  IN <<BlocksOfType(msgs[at[1]], "actions")[at[2]].BlockID,
       BlocksOfType(msgs[at[1]], "context")[at[2]].BlockID>>

\* C8: two renders of an alert with the same labels give its action block
\* the same identifier and its context block the same identifier.
C8_StableBlockIDs ==
  [][(rendered = "buildMessages" /\ rendered' = "buildMessages")
       => \A a \in 1..Len(grafanaMsg.Alerts) :
            BlockIDsOf(slackMsgs, a) = BlockIDsOf(slackMsgs', a)]_vars

\* C9: after buildMessages has returned, the label map and the annotation
\* map of every alert of the batch hold what they held before the call.
C9_MapsUnchanged ==
  ByBuildMessages =>
    \A i \in 1..Len(grafanaMsg.Alerts) :
      /\ labels[grafanaMsg.Alerts[i].Labels] = body.Alerts[i].Labels
      /\ grafanaMsg.Alerts[i].Annotations = body.Alerts[i].Annotations

Succeeded == \A i \in 1..Len(posted) : ~posted[i].err

\* C2: the handler answers 200 iff the body was read and decoded and every
\* call of PostWebhookContext succeeded; when the body does not decode it
\* answers 500 and no call is made.
C2_Response ==
  /\ body.malformed => posted = <<>>
  /\ pc = "done" =>
       /\ response = StatusOK <=> (rendered # "" /\ Succeeded)
       /\ response # StatusOK => response = StatusInternalServerError
       /\ body.malformed => response = StatusInternalServerError
       /\ rendered = "" => posted = <<>>

\* a request answered 500 although its last call succeeded, the first
\* having failed
C2_Witness ==
  /\ pc = "done"
  /\ Len(posted) >= 2
  /\ posted[1].err
  /\ ~posted[Len(posted)].err
  /\ response = StatusInternalServerError

\* a body that does not decode, answered
C2_WitnessMalformed ==
  body.malformed /\ pc = "done" /\ response = StatusInternalServerError

\* the calls so far are those for the first messages, in order, one each
PostedInOrder ==
  /\ Len(posted) <= Len(slackMsgs)
  /\ \A i \in 1..Len(posted) : posted[i].msg = slackMsgs[i]

\* C3: every message of buildMessages is posted exactly once, in order and
\* one call at a time, whatever the earlier outcomes, and the response is
\* written only after the last call.
C3_AllAttempted ==
  /\ [](/\ PostedInOrder
        /\ response # 0 => pc = "done"
        /\ (pc = "done" /\ rendered # "") => Len(posted) = Len(slackMsgs))
  /\ [][/\ posted' # posted =>
             /\ response = 0 /\ response' = 0
             /\ Len(posted') = Len(posted) + 1
             /\ SubSeq(posted', 1, Len(posted)) = posted
        /\ response # 0 => response' = response]_vars

\* three messages posted and answered, the first call having failed
C3_Witness ==
  /\ pc = "done"
  /\ Len(slackMsgs) = 3
  /\ Len(posted) = 3
  /\ posted[1].err
  /\ response = StatusInternalServerError

(***************************************************************************)
(* extractValue.                                                           *)
(***************************************************************************)
\* the positions of s where "value=" starts
Occurrences(s) ==
  {p \in 1..(Len(s) - Len(ValueSep) + 1) :
     SubSeq(s, p, p + Len(ValueSep) - 1) = ValueSep}

\* what follows the "value=" at p, up to the next space or the end
UpToSpace(s, p) ==
  LET rest == SubSeq(s, p + Len(ValueSep), Len(s))
      sp == FirstOf(rest, {32})
  IN IF sp = 0 THEN rest ELSE SubSeq(rest, 1, sp - 1)

\* a text humanized when it is a number, raw when it is not
TextOrRaw(text, h) == IF h.err THEN text ELSE h.str

HumanizedOrRaw(text) == TextOrRaw(text, humanize(text))

\* C11: of a value string that contains "value=", once or several times,
\* extractValue returns what follows a "value=" up to the next space,
\* humanized when it is a number and raw when it is not; of a value string
\* without "value=" it returns the string itself.
C11_Extracted ==
  pc = "extractValue" =>
    IF Occurrences(valueInput) = {}
    THEN extracted = valueInput
    ELSE \E p \in Occurrences(valueInput) :
           extracted = HumanizedOrRaw(UpToSpace(valueInput, p))

\* the same of the value strings with at most one "value="
C11_ExtractedOnce ==
  (pc = "extractValue" /\ Cardinality(Occurrences(valueInput)) <= 1)
    => C11_Extracted

(***************************************************************************)
(* humanize.                                                               *)
(***************************************************************************)
Min(a, b) == IF a < b THEN a ELSE b

\* the n-th entry of a table of prefixes, nothing for n = 0
PrefixAt(table, n) == IF n = 0 THEN <<>> ELSE table[n]

\* the least number of divisions by 1000 that bring a number of decimal
\* magnitude mag >= 1 below 1000, at most 8
Divisions(mag) == Min(8, (mag - 1) \div 3)

\* the least number of multiplications by 1000 that bring a number of
\* decimal magnitude mag <= 0 to 1 or more, at most 8
Multiplications(mag) == Min(8, (3 - mag) \div 3)

\* the result r of humanize for the number v, with the prefixes of the
\* tables big and small and the texts zeros for zero
ScaledBy(v, r, big, small, zeros) ==
  LET mag == Magnitude(v)
      k == IF mag >= 1 THEN Divisions(mag) ELSE Multiplications(mag)
  IN IF IsZero(v) THEN r.str \in zeros /\ r.prefix = <<>>
     ELSE /\ r.steps = k
          /\ r.prefix = PrefixAt(IF mag >= 1 THEN big ELSE small, k)
          /\ r.v.neg = v.neg /\ r.v.digits = v.digits
          /\ r.v.exp = (IF mag >= 1 THEN v.exp - 3 * k ELSE v.exp + 3 * k)
          /\ (mag \in -23..27) => Magnitude(r.v) \in 1..3
          /\ Len(r.str) >= Len(r.prefix)
          /\ SubSeq(r.str, Len(r.str) - Len(r.prefix) + 1, Len(r.str))
               = r.prefix

\* "m", "\302\265" (the micro sign in UTF-8), "n", "p", "f", "a", "z", "y"
MicroSignPrefixes ==
  <<<<109>>, <<194, 181>>, <<110>>, <<112>>, <<102>>, <<97>>, <<122>>,
    <<121>>>>

HumanizedNumber ==
  pc = "humanize" /\ ~humanized.err /\ humanized.parsed.kind = "num"

\* C12 as stated: a number of magnitude 1 or more is divided by 1000 while
\* it is 1000 or more and gets the prefix k, M, G, T, P, E, Z, Y of the
\* number of divisions; a number below 1 is multiplied by 1000 while it is
\* below 1 and gets the prefix m, micro sign, n, p, f, a, z, y of the number
\* of multiplications; the mantissa is the number scaled and lies in
\* [1, 1000) when 8 steps suffice; zero gives "0" without prefix.
C12_ScaledMicroSign ==
  HumanizedNumber =>
    ScaledBy(humanized.parsed, humanized,
             <<<<107>>, <<77>>, <<71>>, <<84>>, <<80>>, <<69>>, <<90>>,
               <<89>>>>,
             MicroSignPrefixes, {<<48>>})

\* C12 as amended: the same with the prefix u for two multiplications and
\* with "-0" for the negative zero.
C12_Scaled ==
  HumanizedNumber =>
    ScaledBy(humanized.parsed, humanized,
             <<<<107>>, <<77>>, <<71>>, <<84>>, <<80>>, <<69>>, <<90>>,
               <<89>>>>,
             <<<<109>>, <<117>>, <<110>>, <<112>>, <<102>>, <<97>>, <<122>>,
               <<121>>>>,
             {<<48>>, <<45, 48>>})

\* 0.0000025 became "2.5u"
C12_Witness ==
  /\ HumanizedNumber
  /\ humanized.steps = 2
  /\ humanized.str = <<50, 46, 53, 117>>

\* a number beyond the last prefix: 8 divisions, mantissa of 1000 or more
C12_WitnessBeyond ==
  /\ HumanizedNumber
  /\ humanized.steps = 8
  /\ humanized.prefix = <<89>>
  /\ Magnitude(humanized.v) > 3

(***************************************************************************)
(* Every alert in one message.                                             *)
(***************************************************************************)
\* the places <<k, i>> where the messages render the a-th alert of the
\* batch: it is the i-th alert of the k-th message
RenderingsOf(a) ==
  {ki \in {<<k, i>> : k \in 1..Len(slackMsgs), i \in 1..7} :
     /\ ki[2] <= Len(slackMsgs[ki[1]].alerts)
     /\ slackMsgs[ki[1]].alerts[ki[2]].Labels = a}

\* C13: over the messages of one batch every alert of the batch is
\* rendered exactly once, whatever its status, and every message renders
\* at least one alert.
C13_EveryAlertOnce ==
  ByBuildMessages =>
    /\ \A a \in 1..Len(grafanaMsg.Alerts) :
         /\ Cardinality(RenderingsOf(a)) = 1
         /\ \A ki \in RenderingsOf(a) :
              slackMsgs[ki[1]].alerts[ki[2]] = grafanaMsg.Alerts[a]
    /\ \A k \in 1..Len(slackMsgs) :
         /\ HeadersInOrder(slackMsgs[k])
         /\ Len(BlocksOfType(slackMsgs[k], "header")) >= 1

\* a batch of three statuses, one of them neither firing nor resolved,
\* with a group of more than 7, rendered in four messages
C13_Witness ==
  /\ ByBuildMessages
  /\ Cardinality(StatusesPresent) = 3
  /\ "pending" \in StatusesPresent
  /\ \E st \in StatusesPresent : Len(WithStatus(st)) > 7
  /\ Len(slackMsgs) = 4

(***************************************************************************)
(* Block identifiers and the number of blocks.                             *)
(***************************************************************************)
\* no two blocks of the type share an identifier in the message
UniqueIDs(m, type) ==
  LET bs == BlocksOfType(m, type)
  IN \A i, j \in 1..Len(bs) : i # j => bs[i].BlockID # bs[j].BlockID

\* C14: in a message built by buildMessages no two action blocks share an
\* identifier and no two context blocks share an identifier, also when
\* alerts of the chunk have equal label sets or label sets of the same
\* name+value text.
C14_UniqueBlockIDs ==
  ByBuildMessages =>
    \A k \in 1..Len(slackMsgs) :
      UniqueIDs(slackMsgs[k], "actions") /\ UniqueIDs(slackMsgs[k], "context")

HasDescription(alert) ==
  /\ "description" \in DOMAIN alert.Annotations
  /\ alert.Annotations["description"] # ""

\* the types of the blocks of a chunk of alerts, from the i-th alert on
RECURSIVE BudgetTypes(_, _)
BudgetTypes(alerts, i) ==
  IF i > Len(alerts) THEN <<>>
  ELSE (IF i # 1 THEN <<"divider">> ELSE <<>>)
       \o <<"header">>
       \o (IF HasDescription(alerts[i]) THEN <<"section">> ELSE <<>>)
       \o <<"section", "actions", "context">>
       \o BudgetTypes(alerts, i + 1)

\* C15: the blocks of a message of n alerts, 1 <= n <= 7, are, alert by
\* alert, a divider (but for the first alert), a header, a description
\* section (iff the description is not empty), the label block, an action
\* block and a context block: between 5n-1 and 6n-1 blocks, at most 41.
C15_BlockBudget ==
  ByBuildMessages =>
    \A k \in 1..Len(slackMsgs) :
      LET m == slackMsgs[k]
          n == Len(m.alerts)
      IN /\ n \in 1..7
         /\ HeadersInOrder(m)
         /\ [b \in 1..Len(m.Blocks) |-> m.Blocks[b].Type]
              = BudgetTypes(m.alerts, 1)
         /\ \A b \in 1..Len(m.Blocks) :
              (m.Blocks[b].Type = "section" /\ m.Blocks[b - 1].Type = "header"
               /\ m.Blocks[b + 1].Type = "section")
                => ~IsLabelBlock(m.Blocks[b])
         /\ Len(m.Blocks) >= 5 * n - 1
         /\ Len(m.Blocks) <= 6 * n - 1
         /\ Len(m.Blocks) <= 41

\* a message of 7 alerts with a description each, 41 blocks, in a batch
\* of more than one message
C15_Witness ==
  /\ ByBuildMessages
  /\ \E k \in 1..Len(slackMsgs) :
       Len(slackMsgs[k].alerts) = 7 /\ Len(slackMsgs[k].Blocks) = 41
  /\ Len(slackMsgs) >= 2

\* a message of 7 alerts, some with an empty description: fewer than 41
C15_WitnessEmpty ==
  /\ ByBuildMessages
  /\ \E k \in 1..Len(slackMsgs) :
       /\ Len(slackMsgs[k].alerts) = 7
       /\ \E i \in 1..7 :
            /\ "description" \in DOMAIN slackMsgs[k].alerts[i].Annotations
            /\ ~HasDescription(slackMsgs[k].alerts[i])
       /\ Len(slackMsgs[k].Blocks) = 38

====
